---- MODULE Spec2Model ----
(***************************************************************************)
(* Model of the research-analysis orchestrator (src/orchestrator.py):      *)
(* ResearchAnalysisOrchestrator.analyze, its two downstream schedulers,    *)
(* the three response parsers, the default records and _merge_defaults.    *)
(*                                                                         *)
(* Python values are tagged pairs <<tag, content>>:                        *)
(*   <<"none", <<>>>>   None                                               *)
(*   <<"str", s>>       a str whose content is the TLA+ string s           *)
(*   <<"text", toks>>   a str holding a model response, kept as the        *)
(*                      sequence of its lexical tokens                     *)
(*   <<"list", xs>>     a list, xs a sequence of values                    *)
(*   <<"dict", f>>      a dict, f a function from keys to values           *)
(***************************************************************************)
EXTENDS Integers, Sequences, FiniteSets, TLC

(***************************************************************************)
(* Python values                                                           *)
(***************************************************************************)
NoneVal == <<"none", <<>> >>
Str(s) == <<"str", s>>
Text(toks) == <<"text", toks>>
List(xs) == <<"list", xs>>
Dict(f) == <<"dict", f>>
Bool(b) == <<"bool", b>>

IsInstanceStr(v) == v[1] \in {"str", "text"}
IsInstanceDict(v) == v[1] = "dict"
IsInstanceBool(v) == v[1] = "bool"

\* Python truth value of an object (used by `if error:` and by `x or y`).
Truthy(v) ==
  CASE v[1] = "none" -> FALSE
    [] v[1] = "str"  -> v[2] # ""
    [] v[1] = "text" -> v[2] # <<>>
    [] v[1] = "list" -> v[2] # <<>>
    [] v[1] = "dict" -> DOMAIN v[2] # {}
    [] v[1] = "bool" -> v[2]

\* Python `a or b`.
PyOr(a, b) == IF Truthy(a) THEN a ELSE b

(***************************************************************************)
(* json.loads on a token sequence.  A token is <<kind, content>> with kind *)
(* one of "{", "}", "[", "]", ":", ",", "str" (a string literal), "null",  *)
(* or "word" (any other run of characters, which JSON does not accept).    *)
(***************************************************************************)
Ok(v, n) == [ok |-> TRUE, val |-> v, next |-> n, msg |-> ""]
Err(m) == [ok |-> FALSE, val |-> NoneVal, next |-> 0, msg |-> m]

KindAt(toks, i) == IF i <= Len(toks) THEN toks[i][1] ELSE "eof"

RECURSIVE ScanValue(_, _)
RECURSIVE ScanArray(_, _, _)
RECURSIVE ScanObject(_, _, _)

ScanArray(toks, i, acc) ==
  LET r == ScanValue(toks, i) IN
  IF ~r.ok THEN r
  ELSE CASE KindAt(toks, r.next) = "," -> ScanArray(toks, r.next + 1, Append(acc, r.val))
         [] KindAt(toks, r.next) = "]" -> Ok(List(Append(acc, r.val)), r.next + 1)
         [] OTHER -> Err("Expecting ',' delimiter")

ScanObject(toks, i, acc) ==
  IF KindAt(toks, i) # "str"
  THEN Err("Expecting property name enclosed in double quotes")
  ELSE IF KindAt(toks, i + 1) # ":"
  THEN Err("Expecting ':' delimiter")
  ELSE LET r == ScanValue(toks, i + 2)
           \* a repeated key keeps its last value
           acc2 == (toks[i][2] :> r.val) @@ acc
       IN IF ~r.ok THEN r
          ELSE CASE KindAt(toks, r.next) = "," -> ScanObject(toks, r.next + 1, acc2)
                 [] KindAt(toks, r.next) = "}" -> Ok(Dict(acc2), r.next + 1)
                 [] OTHER -> Err("Expecting ',' delimiter")

ScanValue(toks, i) ==
  CASE KindAt(toks, i) = "str"  -> Ok(Str(toks[i][2]), i + 1)
    [] KindAt(toks, i) = "null" -> Ok(NoneVal, i + 1)
    [] KindAt(toks, i) = "["    ->
         IF KindAt(toks, i + 1) = "]" THEN Ok(List(<<>>), i + 2)
         ELSE ScanArray(toks, i + 1, <<>>)
    [] KindAt(toks, i) = "{"    ->
         IF KindAt(toks, i + 1) = "}" THEN Ok(Dict(<<>>), i + 2)
         ELSE ScanObject(toks, i + 1, <<>>)
    [] OTHER -> Err("Expecting value")

\* Outcome of json.loads(response): a value, or the exception it raises.
JsonLoads(response) ==
  IF response[1] # "text"
  THEN [exc |-> "TypeError", val |-> NoneVal,
        msg |-> "the JSON object must be str, bytes or bytearray, not NoneType"]
  ELSE LET r == ScanValue(response[2], 1) IN
       IF ~r.ok
       THEN [exc |-> "JSONDecodeError", val |-> NoneVal, msg |-> r.msg]
       ELSE IF r.next <= Len(response[2])
       THEN [exc |-> "JSONDecodeError", val |-> NoneVal, msg |-> "Extra data"]
       ELSE [exc |-> "none", val |-> r.val, msg |-> ""]

(***************************************************************************)
(* Record kinds: the field names of the three records.                     *)
(***************************************************************************)
StructureFields ==
  {"research_question", "hypothesis", "method", "variables", "dataset",
   "evaluation", "missing_elements"}
ValidityFields ==
  {"internal_validity", "external_validity", "construct_validity",
   "conclusion_validity", "mitigation_suggestions"}
LiteratureFields == {"inferred_topics", "search_queries", "example_related_work"}

\* list.append
ListAppend(l, v) == List(Append(l[2], v))

\* _default_research_structure(error)
DefaultResearchStructure(error) ==
  LET base == [research_question |-> Str("Not specified"),
               hypothesis        |-> Str("Not specified"),
               method            |-> Str("Not specified"),
               variables         |-> List(<<>>),
               dataset           |-> Str("Not specified"),
               evaluation        |-> Str("Not specified"),
               missing_elements  |-> List(<<>>)]
  IN IF Truthy(error)
     THEN Dict([base EXCEPT !.missing_elements = ListAppend(@, error)])
     ELSE Dict(base)

\* _default_validity_threats(error)
DefaultValidityThreats(error) ==
  LET base == [internal_validity      |-> List(<<>>),
               external_validity      |-> List(<<>>),
               construct_validity     |-> List(<<>>),
               conclusion_validity    |-> List(<<>>),
               mitigation_suggestions |-> List(<<>>)]
  IN IF Truthy(error)
     THEN Dict([base EXCEPT !.mitigation_suggestions = ListAppend(@, error)])
     ELSE Dict(base)
\* DefaultLiteratureScout that appends the note to search_queries.
DefaultLiteratureScoutWrongField(error) ==
  LET base == [inferred_topics      |-> List(<<>>),
               search_queries       |-> List(<<>>),
               example_related_work |-> List(<<>>)]
  IN IF Truthy(error)
     THEN Dict([base EXCEPT !.search_queries = ListAppend(@, error)])
     ELSE Dict(base)

\* _default_literature_scout(error)
DefaultLiteratureScout(error) ==
  LET base == [inferred_topics      |-> List(<<>>),
               search_queries       |-> List(<<>>),
               example_related_work |-> List(<<>>)]
  IN IF Truthy(error)
     THEN Dict([base EXCEPT !.inferred_topics = ListAppend(@, error)])
     ELSE Dict(base)
\* MergeDefaults without the `if key in merged` test.
MergeDefaultsAllKeys(defaults, parsed) == Dict(parsed[2] @@ defaults[2])

\* _merge_defaults(defaults, parsed): copy the defaults, then overwrite
\* every key of parsed that the copy already has.
MergeDefaults(defaults, parsed) ==
  Dict([key \in DOMAIN defaults[2] |->
          IF key \in DOMAIN parsed[2] THEN parsed[2][key] ELSE defaults[2][key]])

(***************************************************************************)
(* Exceptions.  Every exception of the model is a subclass of Exception,   *)
(* which is what the `except Exception` clauses of the orchestrator catch. *)
(***************************************************************************)
ExceptionClasses == {"TypeError", "JSONDecodeError", "RuntimeError", "ValueError"}
\* A handler written as `except json.JSONDecodeError`.
ExceptJSONDecodeError(exc) == exc = "JSONDecodeError"


ExceptException(exc) == exc \in ExceptionClasses

\* What a function call yields: a returned value or an escaping exception.
Returns(v) == [raised |-> "none", value |-> v]
Raises(exc) == [raised |-> exc, value |-> NoneVal]

\* _parse_research_structure(response)
ParseResearchStructure(response) ==
  LET r == JsonLoads(response) IN
  IF r.exc # "none"
  THEN IF ExceptException(r.exc)
       THEN Returns(DefaultResearchStructure(
                      Str("Failed to parse research structure: " \o r.msg)))
       ELSE Raises(r.exc)
  ELSE IF IsInstanceDict(r.val)
  THEN Returns(MergeDefaults(DefaultResearchStructure(NoneVal), r.val))
  ELSE Returns(DefaultResearchStructure(
                 Str("Failed to parse research structure: JSON is not an object")))

\* _parse_validity_threats(response)
ParseValidityThreats(response) ==
  LET r == JsonLoads(response) IN
  IF r.exc # "none"
  THEN IF ExceptException(r.exc)
       THEN Returns(DefaultValidityThreats(
                      Str("Failed to parse validity threats: " \o r.msg)))
       ELSE Raises(r.exc)
  ELSE IF IsInstanceDict(r.val)
  THEN Returns(MergeDefaults(DefaultValidityThreats(NoneVal), r.val))
  ELSE Returns(DefaultValidityThreats(
                 Str("Failed to parse validity threats: JSON is not an object")))
\* ParseLiteratureScout merging into the validity defaults.
ParseLiteratureScoutWrongDefaults(response) ==
  LET r == JsonLoads(response) IN
  IF r.exc # "none"
  THEN IF ExceptException(r.exc)
       THEN Returns(DefaultLiteratureScout(
                      Str("Failed to parse literature scout: " \o r.msg)))
       ELSE Raises(r.exc)
  ELSE IF IsInstanceDict(r.val)
  THEN Returns(MergeDefaults(DefaultValidityThreats(NoneVal), r.val))
  ELSE Returns(DefaultLiteratureScout(
                 Str("Failed to parse literature scout: JSON is not an object")))

\* _parse_literature_scout(response)
ParseLiteratureScout(response) ==
  LET r == JsonLoads(response) IN
  IF r.exc # "none"
  THEN IF ExceptException(r.exc)
       THEN Returns(DefaultLiteratureScout(
                      Str("Failed to parse literature scout: " \o r.msg)))
       ELSE Raises(r.exc)
  ELSE IF IsInstanceDict(r.val)
  THEN Returns(MergeDefaults(DefaultLiteratureScout(NoneVal), r.val))
  ELSE Returns(DefaultLiteratureScout(
                 Str("Failed to parse literature scout: JSON is not an object")))

(***************************************************************************)
(* Responses of the generation service (response.text of get_response).    *)
(***************************************************************************)
P(k) == <<k, "">>
Lit(s) == <<"str", s>>
Word(s) == <<"word", s>>

(***************************************************************************)
(* The JSON serialization of a value (the body of the /analyze response,   *)
(* as json.dumps writes it): null, a string literal, an array, or an       *)
(* object whose members come in the dict's insertion order.                *)
(***************************************************************************)
\* Insertion order of the keys: the order in which the default records and
\* the result dict are written; a key of no record comes last.
KeyOrder ==
  <<"research_structure", "validity_threats", "literature_scout",
    "research_question", "hypothesis", "method", "variables", "dataset",
    "evaluation", "missing_elements",
    "internal_validity", "external_validity", "construct_validity",
    "conclusion_validity", "mitigation_suggestions",
    "inferred_topics", "search_queries", "example_related_work", "bogus">>

RECURSIVE Dumps(_)
RECURSIVE DumpsItems(_, _)
RECURSIVE DumpsMembers(_, _, _)

DumpsItems(l, i) ==
  IF i > Len(l) THEN <<>>
  ELSE (IF i > 1 THEN <<P(",")>> ELSE <<>>) \o Dumps(l[i]) \o DumpsItems(l, i + 1)

DumpsMembers(d, keys, i) ==
  IF i > Len(keys) THEN <<>>
  ELSE (IF i > 1 THEN <<P(",")>> ELSE <<>>)
       \o <<Lit(keys[i]), P(":")>> \o Dumps(d[keys[i]])
       \o DumpsMembers(d, keys, i + 1)

Dumps(v) ==
  CASE v[1] = "none" -> <<P("null")>>
    [] v[1] = "str"  -> <<Lit(v[2])>>
    [] v[1] = "list" -> <<P("[")>> \o DumpsItems(v[2], 1) \o <<P("]")>>
    [] v[1] = "dict" ->
         LET InDict(k) == k \in DOMAIN v[2] IN
         <<P("{")>> \o DumpsMembers(v[2], SelectSeq(KeyOrder, InDict), 1) \o <<P("}")>>

\* ""
TxtEmpty == <<>>
\* I cannot help with that.
TxtProse == <<Word("I"), Word("cannot"), Word("help")>>
\* []
TxtArray == <<P("["), P("]")>>
\* "Q"
TxtScalar == <<Lit("Q")>>
\* {}
TxtEmptyObject == <<P("{"), P("}")>>
\* {"research_question": "Q", "variables": ["X", "Y"], "bogus": "x"}
TxtStructure ==
  <<P("{"), Lit("research_question"), P(":"), Lit("Q"), P(","),
    Lit("variables"), P(":"), P("["), Lit("X"), P(","), Lit("Y"), P("]"), P(","),
    Lit("bogus"), P(":"), Lit("x"), P("}")>>
\* {"internal_validity": "T", "mitigation_suggestions": ["m"]}
TxtValidity ==
  <<P("{"), Lit("internal_validity"), P(":"), Lit("T"), P(","),
    Lit("mitigation_suggestions"), P(":"), P("["), Lit("m"), P("]"), P("}")>>
\* {"inferred_topics": ["t"], "search_queries": null}
TxtLiterature ==
  <<P("{"), Lit("inferred_topics"), P(":"), P("["), Lit("t"), P("]"), P(","),
    Lit("search_queries"), P(":"), P("null"), P("}")>>
\* {"hypothesis": "H"     (cut off before the closing brace)
TxtTruncated == <<P("{"), Lit("hypothesis"), P(":"), Lit("H")>>

RawTexts ==
  {TxtEmpty, TxtProse, TxtArray, TxtScalar, TxtEmptyObject, TxtStructure,
   TxtValidity, TxtLiterature, TxtTruncated}

\* What one get_response call of an agent can do: return response.text
\* (a str, or None when the service's reply carries no text), or raise a
\* transport/service error.
ServiceError(msg) == <<"raise", msg>>
\* A raised exception of the value-error class (a ValueError or one of its
\* subclasses, such as a validation error of the client library).
ValueErrorRaised(msg) == <<"raise_value", msg>>
Outcomes ==
  {Text(t) : t \in RawTexts} \cup {NoneVal} \cup {ServiceError("timeout")}
IsRaise(o) == o[1] \in {"raise", "raise_value"}
\* The class of the exception a raising call raises.
ExceptionClass(o) == IF o[1] = "raise_value" THEN "ValueError" ELSE "RuntimeError"

\* The texts handed to analyze.
Texts == {"proposal A", "proposal B"}

\* Number of analyze calls made on one orchestrator in a behaviour.
MaxCalls == 2

Stage1 == "research_structure"
Stage2 == "validity_threats"
Stage3 == "literature_scout"
Stages == {Stage1, Stage2, Stage3}
Downstream == {Stage2, Stage3}

\* A key that `results` does not hold (yet).
Absent == <<"absent", <<>> >>

(***************************************************************************)
(* State                                                                   *)
(***************************************************************************)
VARIABLES
  env,                \* what each agent's get_response does in this behaviour
  pc,                 \* position of the current analyze call
  text,               \* analyze's argument text
  parallel,           \* analyze's argument parallel
  callState,          \* per agent: "idle", "running", "returned", "raised"
  callInput,          \* per agent: the argument of its get_response call
  callCount,          \* per agent: get_response calls made by this analyze
  research_json,      \* analyze: raw stage-1 response
  research_structure, \* analyze: parsed stage-1 record
  results,            \* _analyze_downstream_parallel: results map
  validity_response,  \* _analyze_downstream_sequential: stage-2 response
  ret,                \* what the current analyze call yielded
  history,            \* the analyze calls completed so far, oldest first
  completed,          \* concurrent mode: the futures in the order they finished
  constructed,        \* the orchestrator: "none", "ready", or "failed"
  agents,             \* the agents the constructor created, each <<name, api key>>
  request,            \* the payload the /analyze handler is serving, if any
  response            \* the HTTP response to request, once there is one

vars ==
  <<env, pc, text, parallel, callState, callInput, callCount, research_json,
    research_structure, results, validity_response, ret, history, completed,
    constructed, agents, request, response>>

\* The state outside analyze: the orchestrator object and the HTTP exchange.
caller == <<constructed, agents, request, response>>

NoCall == [raised |-> "pending", value |-> NoneVal]

\* An HTTP response, and the value of `response` while there is none.
HttpResponse(status, body) == [status |-> status, body |-> body]
NoResponse == HttpResponse(0, NoneVal)

\* The state before any orchestrator is constructed, the agents' calls
\* being bound to behave as one of outcomes.
InitWith(outcomes) ==
  /\ env \in [Stages -> outcomes]
  /\ pc = "idle"
  /\ text = NoneVal
  /\ parallel = FALSE
  /\ callState = [s \in Stages |-> "idle"]
  /\ callInput = [s \in Stages |-> Absent]
  /\ callCount = [s \in Stages |-> 0]
  /\ research_json = Absent
  /\ research_structure = Absent
  /\ results = [a \in Downstream |-> Absent]
  /\ validity_response = Absent
  /\ ret = NoCall
  /\ history = <<>>
  /\ completed = <<>>
  /\ constructed = "none"
  /\ agents = {}
  /\ request = Absent
  /\ response = NoResponse

Init == InitWith(Outcomes)

\* The entry a completed call leaves in history.
Completed(outcome) ==
  [text |-> text, parallel |-> parallel, outcome |-> outcome,
   started |-> {s \in Stages : callCount[s] > 0}]

\* analyze finishes: it returns v, or the exception exc escapes it.
Finish(outcome) ==
  /\ ret' = outcome
  /\ pc' = IF outcome.raised = "none" THEN "returned" ELSE "raised"
  /\ history' = Append(history, Completed(outcome))

(***************************************************************************)
(* analyze(text, parallel), lines 41-52: entry and the stage-1 call.       *)
(***************************************************************************)
\* analyze(t, p) is entered and makes the stage-1 call.
EnterAnalyze(t, p) ==
  /\ text' = t
  /\ parallel' = p
  /\ callState' = [s \in Stages |-> IF s = Stage1 THEN "running" ELSE "idle"]
  /\ callInput' = [s \in Stages |-> IF s = Stage1 THEN t ELSE Absent]
  /\ callCount' = [s \in Stages |-> IF s = Stage1 THEN 1 ELSE 0]
  /\ research_json' = Absent
  /\ research_structure' = Absent
  /\ results' = [a \in Downstream |-> Absent]
  /\ validity_response' = Absent
  /\ ret' = NoCall
  /\ completed' = <<>>
  /\ pc' = "stage1_call"

\* No analyze call and no HTTP exchange is under way.
Quiet ==
  /\ pc \in {"idle", "returned", "raised"}
  /\ request # Absent => response # NoResponse

\* A fresh orchestrator on which analyze has not been called.
ResetAnalyze ==
  /\ pc' = "idle"
  /\ text' = NoneVal
  /\ parallel' = FALSE
  /\ callState' = [s \in Stages |-> "idle"]
  /\ callInput' = [s \in Stages |-> Absent]
  /\ callCount' = [s \in Stages |-> 0]
  /\ research_json' = Absent
  /\ research_structure' = Absent
  /\ results' = [a \in Downstream |-> Absent]
  /\ validity_response' = Absent
  /\ ret' = NoCall
  /\ completed' = <<>>

\* The api_key arguments a caller passes to the constructor.
ApiKeys == {NoneVal, Str("k")}
\* What os.getenv("GOOGLE_API_KEY") yields.
EnvKeys == {NoneVal, Str(""), Str("k")}

\* __init__ without the `if not api_key: raise ValueError` test.
OrchestratorInitUnchecked(api_key, env_key) ==
  LET key == IF api_key = NoneVal THEN env_key ELSE api_key IN
  [raised |-> "none", agents |-> {<<s, key>> : s \in Stages}]

\* __init__(api_key), lines 28-39, with env_key the value of the
\* GOOGLE_API_KEY environment variable: the exception it raises, if any,
\* and the agents it has created by then, each holding the key.
OrchestratorInit(api_key, env_key) ==
  LET key == IF api_key = NoneVal THEN env_key ELSE api_key IN
  IF api_key = NoneVal /\ ~Truthy(env_key)
  THEN [raised |-> "ValueError", agents |-> {}]
  ELSE [raised |-> "none", agents |-> {<<s, key>> : s \in Stages}]

\* A caller that holds no orchestrator constructs one.
Construct(api_key, env_key) ==
  /\ Quiet
  /\ constructed # "ready"
  /\ LET made == OrchestratorInit(api_key, env_key) IN
     /\ constructed' = IF made.raised = "none" THEN "ready" ELSE "failed"
     /\ agents' = made.agents
  /\ ResetAnalyze
  /\ request' = Absent
  /\ response' = NoResponse
  /\ UNCHANGED <<env, history>>

\* A caller that holds a constructed orchestrator calls analyze(t, p).
Analyze(t, p) ==
  /\ Quiet
  /\ constructed = "ready"
  /\ Len(history) < MaxCalls
  /\ EnterAnalyze(Str(t), p)
  /\ request' = Absent
  /\ response' = NoResponse
  /\ UNCHANGED <<env, history, constructed, agents>>

\* Stage1Returns with one default record shared by all calls: the notes
\* the call before left in missing_elements are still in it.
Stage1ReturnsSharedDefaults ==
  /\ pc = "stage1_call"
  /\ ~IsRaise(env[Stage1])
  /\ callState' = [callState EXCEPT ![Stage1] = "returned"]
  /\ research_json' = env[Stage1]
  /\ LET parsed == ParseResearchStructure(env[Stage1])
         carried == IF Len(history) > 0 /\ history[Len(history)].outcome.raised = "none"
                    THEN history[Len(history)].outcome.value[2]
                           .research_structure[2].missing_elements[2]
                    ELSE <<>>
     IN /\ research_structure' =
             Dict([parsed.value[2] EXCEPT !.missing_elements = List(carried \o @[2])])
        /\ pc' = "stage1_done"
        /\ UNCHANGED <<ret, history>>
  /\ UNCHANGED <<env, caller, completed, text, parallel, callInput, callCount, results,
                 validity_response>>

\* The stage-1 call returns; line 53 parses its raw response.
Stage1Returns ==
  /\ pc = "stage1_call"
  /\ ~IsRaise(env[Stage1])
  /\ callState' = [callState EXCEPT ![Stage1] = "returned"]
  /\ research_json' = env[Stage1]
  /\ LET parsed == ParseResearchStructure(env[Stage1]) IN
     IF parsed.raised = "none"
     THEN /\ research_structure' = parsed.value
          /\ pc' = "stage1_done"
          /\ UNCHANGED <<ret, history>>
     ELSE /\ research_structure' = Absent
          /\ Finish(Raises(parsed.raised))
  /\ UNCHANGED <<env, caller, completed, text, parallel, callInput, callCount, results,
                 validity_response>>
\* Stage1Raises with the exception contained the way the concurrent path
\* contains a downstream one: analyze goes on with an error record.
Stage1RaisesContained ==
  /\ pc = "stage1_call"
  /\ IsRaise(env[Stage1])
  /\ callState' = [callState EXCEPT ![Stage1] = "raised"]
  /\ research_json' = NoneVal
  /\ research_structure' = DefaultResearchStructure(Str("Error: " \o env[Stage1][2]))
  /\ pc' = "stage1_done"
  /\ UNCHANGED <<env, caller, completed, text, parallel, callInput, callCount, results,
                 validity_response, ret, history>>

\* The stage-1 call raises; nothing catches it in analyze.
Stage1Raises ==
  /\ pc = "stage1_call"
  /\ IsRaise(env[Stage1])
  /\ callState' = [callState EXCEPT ![Stage1] = "raised"]
  /\ Finish(Raises(ExceptionClass(env[Stage1])))
  /\ UNCHANGED <<env, caller, completed, text, parallel, callInput, callCount, research_json,
                 research_structure, results, validity_response>>

\* AnalysisResult with the validity record put under "research_structure".
AnalysisResultWrongRecord(rs, vt, ls) ==
  Dict([research_structure |-> vt, validity_threats |-> vt, literature_scout |-> ls])

\* The dict analyze returns, lines 64-68.
AnalysisResult(rs, vt, ls) ==
  Dict([research_structure |-> rs, validity_threats |-> vt, literature_scout |-> ls])
\* DownstreamArgument handing on the parsed record.
DownstreamArgumentParsed(raw, parsed) == parsed

\* Lines 55-62: the argument analyze hands to the downstream scheduler, and
\* the scheduler to both get_response calls: research_json, the raw stage-1
\* response (research_structure is its parsed form).
DownstreamArgument(raw, parsed) == raw

(***************************************************************************)
(* _analyze_downstream_parallel, lines 70-112.                             *)
(***************************************************************************)
\* SubmitDownstream without the `if parallel:` test of line 55.
SubmitDownstreamAnyMode ==
  /\ pc = "stage1_done"
  /\ callState' = [s \in Stages |-> IF s \in Downstream THEN "running" ELSE callState[s]]
  /\ callInput' = [s \in Stages |-> IF s \in Downstream
                                    THEN DownstreamArgument(research_json, research_structure)
                                    ELSE callInput[s]]
  /\ callCount' = [s \in Stages |-> IF s \in Downstream THEN callCount[s] + 1 ELSE callCount[s]]
  /\ results' = [a \in Downstream |-> Absent]
  /\ pc' = "par_wait"
  /\ UNCHANGED <<env, caller, completed, text, parallel, research_json, research_structure,
                 validity_response, ret, history>>

\* Lines 55-58 and 76-84: both downstream calls are submitted to the
\* two-worker pool, each with the raw stage-1 response as its argument.
SubmitDownstream ==
  /\ pc = "stage1_done"
  /\ parallel
  /\ callState' = [s \in Stages |-> IF s \in Downstream THEN "running" ELSE callState[s]]
  /\ callInput' = [s \in Stages |-> IF s \in Downstream
                                    THEN DownstreamArgument(research_json, research_structure)
                                    ELSE callInput[s]]
  /\ callCount' = [s \in Stages |-> IF s \in Downstream THEN callCount[s] + 1 ELSE callCount[s]]
  /\ results' = [a \in Downstream |-> Absent]
  /\ pc' = "par_wait"
  /\ UNCHANGED <<env, caller, completed, text, parallel, research_json, research_structure,
                 validity_response, ret, history>>

\* FutureReturns with the worker writing its outcome into the results map
\* itself, under one slot that both workers use.
FutureReturnsSharedSlot(a) ==
  /\ pc = "par_wait"
  /\ callState[a] = "running"
  /\ ~IsRaise(env[a])
  /\ callState' = [callState EXCEPT ![a] = "returned"]
  /\ completed' = Append(completed, a)
  /\ results' = [results EXCEPT ![Stage2] = env[a]]
  /\ UNCHANGED <<env, caller, pc, text, parallel, callInput, callCount, research_json,
                 research_structure, validity_response, ret, history>>

\* A worker's get_response call returns.
FutureReturns(a) ==
  /\ pc = "par_wait"
  /\ callState[a] = "running"
  /\ ~IsRaise(env[a])
  /\ callState' = [callState EXCEPT ![a] = "returned"]
  /\ completed' = Append(completed, a)
  /\ UNCHANGED <<env, caller, pc, text, parallel, callInput, callCount, research_json,
                 research_structure, results, validity_response, ret, history>>

\* FutureRaises with the exception lost in the worker: the future is never
\* marked as done.
FutureRaisesLost(a) ==
  /\ pc = "par_wait"
  /\ callState[a] = "running"
  /\ IsRaise(env[a])
  /\ callState' = [callState EXCEPT ![a] = "lost"]
  /\ UNCHANGED <<env, caller, pc, text, parallel, callInput, callCount, research_json,
                 research_structure, results, validity_response, ret, history, completed>>

\* A worker's get_response call raises; the future keeps the exception.
FutureRaises(a) ==
  /\ pc = "par_wait"
  /\ callState[a] = "running"
  /\ IsRaise(env[a])
  /\ callState' = [callState EXCEPT ![a] = "raised"]
  /\ completed' = Append(completed, a)
  /\ UNCHANGED <<env, caller, pc, text, parallel, callInput, callCount, research_json,
                 research_structure, results, validity_response, ret, history>>
\* ErrorRecord that does not pass the error text on.
ErrorRecordNoNote(a, e) ==
  IF a = "validity_threats"
  THEN DefaultValidityThreats(NoneVal)
  ELSE DefaultLiteratureScout(NoneVal)

\* Lines 92-99: the record stored for a future whose call raised e.
ErrorRecord(a, e) ==
  IF a = "validity_threats"
  THEN DefaultValidityThreats(Str("Error: " \o e[2]))
  ELSE DefaultLiteratureScout(Str("Error: " \o e[2]))

\* Collect storing by position: the future handled first goes under
\* "validity_threats", the second under "literature_scout".
CollectByPosition(a) ==
  /\ pc = "par_wait"
  /\ LET handled == Cardinality({b \in Downstream : results[b] # Absent})
         slot == IF handled = 0 THEN Stage2 ELSE Stage3
     IN /\ handled < Len(completed)
        /\ a = completed[handled + 1]
        /\ results' = [results EXCEPT ![slot] =
                         IF callState[a] = "returned" THEN env[a]
                         ELSE ErrorRecord(a, env[a])]
  /\ UNCHANGED <<env, caller, completed, text, parallel, callState, callInput, callCount,
                 research_json, research_structure, validity_response, pc, ret, history>>

\* Lines 86-99: one turn of the as_completed loop, for a finished future
\* that has not been handled yet.
Collect(a) ==
  /\ pc = "par_wait"
  /\ callState[a] \in {"returned", "raised"}
  /\ results[a] = Absent
  /\ IF callState[a] = "returned"
     THEN /\ results' = [results EXCEPT ![a] = env[a]]
          /\ UNCHANGED <<pc, ret, history>>
     ELSE IF ExceptException(ExceptionClass(env[a]))
     THEN /\ results' = [results EXCEPT ![a] = ErrorRecord(a, env[a])]
          /\ UNCHANGED <<pc, ret, history>>
     ELSE /\ UNCHANGED results
          /\ Finish(Raises(ExceptionClass(env[a])))
  /\ UNCHANGED <<env, caller, completed, text, parallel, callState, callInput, callCount,
                 research_json, research_structure, validity_response>>

\* dict.get(key): the value, or None for a key the dict does not hold.
DictGet(d, key) == IF d[key] = Absent THEN NoneVal ELSE d[key]

\* ValidityOutput without the `or self._default_validity_threats()` fallback.
ValidityOutputNoFallback(res) ==
  LET validity_output == DictGet(res, "validity_threats")
  IN IF IsInstanceStr(validity_output)
     THEN ParseValidityThreats(validity_output)
     ELSE Returns(validity_output)

\* Lines 101-105 and 110: the validity record made of results.
ValidityOutput(res) ==
  LET validity_output == DictGet(res, "validity_threats")
      parsed == IF IsInstanceStr(validity_output)
                THEN ParseValidityThreats(validity_output)
                ELSE Returns(validity_output)
  IN IF parsed.raised # "none" THEN parsed
     ELSE Returns(PyOr(parsed.value, DefaultValidityThreats(NoneVal)))

\* LiteratureOutput without the isinstance test: every value is parsed.
LiteratureOutputAlwaysParses(res) ==
  LET literature_output == DictGet(res, "literature_scout")
      parsed == IF IsInstanceDict(literature_output)
                THEN Returns(literature_output)
                ELSE ParseLiteratureScout(literature_output)
  IN IF parsed.raised # "none" THEN parsed
     ELSE Returns(PyOr(parsed.value, DefaultLiteratureScout(NoneVal)))

\* Lines 102, 106-107 and 111: the literature record made of results.
LiteratureOutput(res) ==
  LET literature_output == DictGet(res, "literature_scout")
      parsed == IF IsInstanceStr(literature_output)
                THEN ParseLiteratureScout(literature_output)
                ELSE Returns(literature_output)
  IN IF parsed.raised # "none" THEN parsed
     ELSE Returns(PyOr(parsed.value, DefaultLiteratureScout(NoneVal)))

\* AssembleParallel run as soon as one future was handled.
AssembleParallelFirst ==
  /\ pc = "par_wait"
  /\ \E a \in Downstream : results[a] # Absent
  /\ LET vt == ValidityOutput(results)
         ls == LiteratureOutput(results)
     IN IF vt.raised # "none" THEN Finish(Raises(vt.raised))
        ELSE IF ls.raised # "none" THEN Finish(Raises(ls.raised))
        ELSE Finish(Returns(AnalysisResult(research_structure, vt.value, ls.value)))
  /\ UNCHANGED <<env, caller, completed, text, parallel, callState, callInput, callCount,
                 research_json, research_structure, results, validity_response>>

\* Lines 101-112 and 64-68: the pool is shut down once both futures were
\* handled; the two outputs are parsed and analyze returns.
AssembleParallel ==
  /\ pc = "par_wait"
  /\ \A a \in Downstream : results[a] # Absent
  /\ LET vt == ValidityOutput(results)
         ls == LiteratureOutput(results)
     IN IF vt.raised # "none" THEN Finish(Raises(vt.raised))
        ELSE IF ls.raised # "none" THEN Finish(Raises(ls.raised))
        ELSE Finish(Returns(AnalysisResult(research_structure, vt.value, ls.value)))
  /\ UNCHANGED <<env, caller, completed, text, parallel, callState, callInput, callCount,
                 research_json, research_structure, results, validity_response>>

(***************************************************************************)
(* _analyze_downstream_sequential, lines 114-124.                          *)
(***************************************************************************)
\* CallStage2 entering the stage-3 call along with the stage-2 call.
CallStage2StartsBoth ==
  /\ pc = "stage1_done"
  /\ ~parallel
  /\ callState' = [s \in Stages |-> IF s \in Downstream THEN "running" ELSE callState[s]]
  /\ callInput' = [s \in Stages |-> IF s \in Downstream
                                    THEN DownstreamArgument(research_json, research_structure)
                                    ELSE callInput[s]]
  /\ callCount' = [s \in Stages |-> IF s \in Downstream THEN callCount[s] + 1 ELSE callCount[s]]
  /\ pc' = "seq_call2"
  /\ UNCHANGED <<env, caller, completed, text, parallel, research_json, research_structure,
                 results, validity_response, ret, history>>

\* Lines 59-62 and 118: the stage-2 call is entered.
CallStage2 ==
  /\ pc = "stage1_done"
  /\ ~parallel
  /\ callState' = [callState EXCEPT ![Stage2] = "running"]
  /\ callInput' = [callInput EXCEPT ![Stage2] =
                     DownstreamArgument(research_json, research_structure)]
  /\ callCount' = [callCount EXCEPT ![Stage2] = @ + 1]
  /\ pc' = "seq_call2"
  /\ UNCHANGED <<env, caller, completed, text, parallel, research_json, research_structure,
                 results, validity_response, ret, history>>

\* Line 118 returns and line 119 enters the stage-3 call.
Stage2Returns ==
  /\ pc = "seq_call2"
  /\ ~IsRaise(env[Stage2])
  /\ validity_response' = env[Stage2]
  /\ callState' = [callState EXCEPT ![Stage2] = "returned", ![Stage3] = "running"]
  /\ callInput' = [callInput EXCEPT ![Stage3] =
                     DownstreamArgument(research_json, research_structure)]
  /\ callCount' = [callCount EXCEPT ![Stage3] = @ + 1]
  /\ pc' = "seq_call3"
  /\ UNCHANGED <<env, caller, completed, text, parallel, research_json, research_structure,
                 results, ret, history>>

\* Stage2Raises with the exception caught and the stage-3 call entered.
Stage2RaisesContinues ==
  /\ pc = "seq_call2"
  /\ IsRaise(env[Stage2])
  /\ validity_response' = NoneVal
  /\ callState' = [callState EXCEPT ![Stage2] = "raised", ![Stage3] = "running"]
  /\ callInput' = [callInput EXCEPT ![Stage3] =
                     DownstreamArgument(research_json, research_structure)]
  /\ callCount' = [callCount EXCEPT ![Stage3] = @ + 1]
  /\ pc' = "seq_call3"
  /\ UNCHANGED <<env, caller, completed, text, parallel, research_json, research_structure,
                 results, ret, history>>

\* Line 118 raises; nothing catches it.
Stage2Raises ==
  /\ pc = "seq_call2"
  /\ IsRaise(env[Stage2])
  /\ callState' = [callState EXCEPT ![Stage2] = "raised"]
  /\ Finish(Raises(ExceptionClass(env[Stage2])))
  /\ UNCHANGED <<env, caller, completed, text, parallel, callInput, callCount, research_json,
                 research_structure, results, validity_response>>

\* Stage3Returns with a parser that consumes its input: the stage-2
\* response is gone once it was parsed.
Stage3ReturnsConsumesInput ==
  /\ pc = "seq_call3"
  /\ ~IsRaise(env[Stage3])
  /\ callState' = [callState EXCEPT ![Stage3] = "returned"]
  /\ LET vt == ParseValidityThreats(validity_response)
         ls == ParseLiteratureScout(env[Stage3])
     IN IF vt.raised # "none" THEN Finish(Raises(vt.raised))
        ELSE IF ls.raised # "none" THEN Finish(Raises(ls.raised))
        ELSE Finish(Returns(AnalysisResult(research_structure, vt.value, ls.value)))
  /\ validity_response' = Text(TxtEmpty)
  /\ UNCHANGED <<env, caller, completed, text, parallel, callInput, callCount, research_json,
                 research_structure, results>>

\* Line 119 returns; lines 121-124 parse both responses and analyze
\* returns (lines 64-68).
Stage3Returns ==
  /\ pc = "seq_call3"
  /\ ~IsRaise(env[Stage3])
  /\ callState' = [callState EXCEPT ![Stage3] = "returned"]
  /\ LET vt == ParseValidityThreats(validity_response)
         ls == ParseLiteratureScout(env[Stage3])
     IN IF vt.raised # "none" THEN Finish(Raises(vt.raised))
        ELSE IF ls.raised # "none" THEN Finish(Raises(ls.raised))
        ELSE Finish(Returns(AnalysisResult(research_structure, vt.value, ls.value)))
  /\ UNCHANGED <<env, caller, completed, text, parallel, callInput, callCount, research_json,
                 research_structure, results, validity_response>>

\* Stage3Raises with one more attempt after the first failure.
Stage3RaisesRetry ==
  /\ pc = "seq_call3"
  /\ IsRaise(env[Stage3])
  /\ IF callCount[Stage3] < 2
     THEN /\ callCount' = [callCount EXCEPT ![Stage3] = @ + 1]
          /\ UNCHANGED <<callState, pc, ret, history>>
     ELSE /\ callState' = [callState EXCEPT ![Stage3] = "raised"]
          /\ Finish(Raises(ExceptionClass(env[Stage3])))
          /\ UNCHANGED callCount
  /\ UNCHANGED <<env, caller, completed, text, parallel, callInput, research_json,
                 research_structure, results, validity_response>>

\* Line 119 raises; nothing catches it.
Stage3Raises ==
  /\ pc = "seq_call3"
  /\ IsRaise(env[Stage3])
  /\ callState' = [callState EXCEPT ![Stage3] = "raised"]
  /\ Finish(Raises(ExceptionClass(env[Stage3])))
  /\ UNCHANGED <<env, caller, completed, text, parallel, callInput, callCount, research_json,
                 research_structure, results, validity_response>>

(***************************************************************************)
(* The /analyze endpoint, src/main.py lines 24-45.                         *)
(***************************************************************************)
\* dict.get(key, default)
DictGetDefault(d, key, default) ==
  IF key \in DOMAIN d[2] THEN d[2][key] ELSE default

\* The strings of the model that consist of whitespace only.
WhitespaceOnly == {"", "   "}
\* StrStrip that trims nothing.
StrStripNothing(v) == v

\* str.strip on the strings of the model.
StrStrip(v) == IF v[2] \in WhitespaceOnly THEN Str("") ELSE v

\* The JSON bodies posted to /analyze: "text" and "parallel" may each be
\* missing (Absent) or hold a value of the right or of a wrong type.
PayloadTexts == {Absent, Str("proposal A"), Str("   "), List(<<>>)}
PayloadParallels == {Absent, Bool(TRUE), Bool(FALSE), Str("yes")}
Payload(t, p) ==
  Dict([k \in {f \in {"text", "parallel"} : (IF f = "text" THEN t ELSE p) # Absent}
          |-> IF k = "text" THEN t ELSE p])
Payloads == {Payload(t, p) : t \in PayloadTexts, p \in PayloadParallels}

\* The handler's response is an error before analyze is entered.
Reject(payload, status, detail, made) ==
  /\ request' = payload
  /\ response' = HttpResponse(status, Str(detail))
  /\ constructed' = made
  /\ agents' = {}
  /\ ResetAnalyze
  /\ UNCHANGED <<env, history>>

\* The mode the handler passes to analyze, line 43.
HandlerMode(requested) == FALSE

\* analyze_research(payload), lines 26-43: the request is validated, an
\* orchestrator is constructed and analyze is entered.
\* A handler written as `except Exception`.
ExceptValueErrorAnyClass(exc) == exc \in ExceptionClasses

\* The exception classes `except ValueError` catches.
ExceptValueError(exc) == exc \in {"ValueError", "JSONDecodeError"}

HandleRequest(payload, env_key) ==
  /\ Quiet
  /\ Len(history) < MaxCalls
  /\ LET t == DictGetDefault(payload, "text", NoneVal)
         p == DictGetDefault(payload, "parallel", Bool(TRUE))
         made == OrchestratorInit(NoneVal, env_key)
     IN IF ~IsInstanceStr(t) \/ ~Truthy(StrStrip(t))
        THEN Reject(payload, 400, "Field 'text' must be a non-empty string", "none")
        ELSE IF ~IsInstanceBool(p)
        THEN Reject(payload, 400, "Field 'parallel' must be a boolean", "none")
        ELSE IF made.raised # "none"
        THEN \* lines 44-45: except ValueError
             IF ExceptValueError(made.raised)
             THEN Reject(payload, 400, "GOOGLE_API_KEY not found.", "failed")
             ELSE Reject(payload, 500, "Internal Server Error", "failed")
        ELSE /\ request' = payload
             /\ response' = NoResponse
             /\ constructed' = "ready"
             /\ agents' = made.agents
             /\ EnterAnalyze(t, HandlerMode(p[2]))
             /\ UNCHANGED <<env, history>>

\* Lines 43-45: analyze has finished; its result is the response body, a
\* ValueError becomes status 400, any other exception a server error.
Respond ==
  /\ request # Absent
  /\ response = NoResponse
  /\ pc \in {"returned", "raised"}
  /\ response' = IF pc = "returned" THEN HttpResponse(200, ret.value)
                 ELSE IF ExceptValueError(ret.raised)
                 THEN HttpResponse(400, Str(ret.raised))
                 ELSE HttpResponse(500, Str("Internal Server Error"))
  /\ UNCHANGED <<env, pc, text, parallel, callState, callInput, callCount,
                 research_json, research_structure, results, validity_response,
                 ret, history, completed, constructed, agents, request>>

Next ==
  \/ \E k \in ApiKeys, e \in EnvKeys : Construct(k, e)
  \/ \E t \in Texts, p \in BOOLEAN : Analyze(t, p)
  \/ Stage1Returns
  \/ Stage1Raises
  \/ SubmitDownstream
  \/ \E a \in Downstream : FutureReturns(a)
  \/ \E a \in Downstream : FutureRaises(a)
  \/ \E a \in Downstream : Collect(a)
  \/ AssembleParallel
  \/ CallStage2
  \/ Stage2Returns
  \/ Stage2Raises
  \/ Stage3Returns
  \/ Stage3Raises

Spec == Init /\ [][Next]_vars

(***************************************************************************)
(* Progress.  The thread running analyze keeps running, the pool runs both *)
(* submitted calls on its two workers, and every external call that was    *)
(* started comes back, by returning or by raising.                         *)
(***************************************************************************)
LiveOutcomes == {Text(TxtEmptyObject), NoneVal, ServiceError("timeout")}
LiveInit == InitWith(LiveOutcomes)

Fairness ==
  /\ WF_vars(Stage1Returns) /\ WF_vars(Stage1Raises)
  /\ WF_vars(SubmitDownstream)
  /\ \A a \in Downstream :
       WF_vars(FutureReturns(a)) /\ WF_vars(FutureRaises(a)) /\ WF_vars(Collect(a))
  /\ WF_vars(AssembleParallel)
  /\ WF_vars(CallStage2)
  /\ WF_vars(Stage2Returns) /\ WF_vars(Stage2Raises)
  /\ WF_vars(Stage3Returns) /\ WF_vars(Stage3Raises)

LiveSpec == LiveInit /\ [][Next]_vars /\ Fairness

\* The orchestrator behind the /analyze endpoint as well as in the hands of
\* a direct caller; the agents answer with an object, with prose, with no
\* text, or raise.
HttpOutcomes ==
  {Text(TxtEmptyObject), Text(TxtProse), NoneVal, ServiceError("timeout"),
   ValueErrorRaised("invalid request")}

HttpInit == InitWith(HttpOutcomes)

HttpNext ==
  \/ \E pl \in Payloads, e \in EnvKeys : HandleRequest(pl, e)
  \/ Respond
  \/ Next

HttpSpec == HttpInit /\ [][HttpNext]_vars

(***************************************************************************)
(* Properties                                                              *)
(***************************************************************************)
\* v is a record of the kind whose field names are fields.
HasFields(v, fields) == IsInstanceDict(v) /\ fields \subseteq DOMAIN v[2]

\* v is a result holding the three records, each with all its fields.
FullResult(v) ==
  /\ HasFields(v, Stages)
  /\ HasFields(v[2].research_structure, StructureFields)
  /\ HasFields(v[2].validity_threats, ValidityFields)
  /\ HasFields(v[2].literature_scout, LiteratureFields)

\* outcome is what a finished analyze call may yield under C1.
FullOrRaised(outcome) ==
  \/ outcome.raised # "none"
  \/ outcome.raised = "none" /\ FullResult(outcome.value)

\* C1: every analyze call that has finished either raised or returned a
\* result that holds the three records research_structure, validity_threats
\* and literature_scout, each a record with every field of its kind.
C1_FullResultOrRaise ==
  /\ pc = "returned" => ret.raised = "none" /\ FullResult(ret.value)
  /\ pc = "raised" => ret.raised # "none"
  /\ \A i \in DOMAIN history : FullOrRaised(history[i].outcome)

\* A concurrent call returned although stage 1 answered with prose and
\* stage 2 with no text at all.
C1_Witness ==
  /\ pc = "returned"
  /\ parallel
  /\ env[Stage1] = Text(TxtProse)
  /\ env[Stage2] = NoneVal
  /\ env[Stage3] = Text(TxtLiterature)

\* The all-defaults record of agent a with the single note "Error: <message>"
\* in its notes field.
ErrorDefault(a, msg) ==
  IF a = Stage2
  THEN Dict([DefaultValidityThreats(NoneVal)[2] EXCEPT
               !.mitigation_suggestions = List(<<Str("Error: " \o msg)>>)])
  ELSE Dict([DefaultLiteratureScout(NoneVal)[2] EXCEPT
               !.inferred_topics = List(<<Str("Error: " \o msg)>>)])

\* The parse of agent a's own output.
ParseOwn(a, output) ==
  IF a = Stage2 THEN ParseValidityThreats(output).value
  ELSE ParseLiteratureScout(output).value

\* The record of agent a in the returned result.
RecordOf(a) == ret.value[2][a]

\* C2: in concurrent mode, when a downstream call raised, analyze still
\* returns a full result; the record of each failed stage is the all-defaults
\* record with exactly the note "Error: <message>", and the record of a stage
\* that succeeded is the parse of that stage's own output.
C2_ContainedFailure ==
  (/\ parallel
   /\ pc \in {"returned", "raised"}
   /\ \E a \in Downstream : callState[a] = "raised")
  => /\ pc = "returned"
     /\ FullResult(ret.value)
     /\ \A a \in Downstream :
          /\ callState[a] = "raised" => RecordOf(a) = ErrorDefault(a, env[a][2])
          /\ callState[a] = "returned" => RecordOf(a) = ParseOwn(a, env[a])

\* The notes field of agent a's record.
NotesField(a) == IF a = Stage2 THEN "mitigation_suggestions" ELSE "inferred_topics"

\* The record rec carries the note in field f.
HasNote(rec, f, note) ==
  /\ IsInstanceDict(rec)
  /\ f \in DOMAIN rec[2]
  /\ rec[2][f][1] = "list"
  /\ \E i \in DOMAIN rec[2][f][2] : rec[2][f][2][i] = note

\* C3: in sequential mode a downstream call that raises ends analyze with
\* that exception and without a result; in concurrent mode the same failing
\* call leaves a full result whose record for the failed stage carries an
\* error note.
C3_ModeDivergenceOnFailure ==
  \A a \in Downstream :
    callState[a] = "raised" =>
      /\ ~parallel => pc = "raised" /\ ret.raised = "RuntimeError"
      /\ (parallel /\ pc \notin {"par_wait"}) =>
           /\ pc = "returned"
           /\ FullResult(ret.value)
           /\ HasNote(RecordOf(a), NotesField(a), Str("Error: " \o env[a][2]))

\* Both modes were run against a failing stage-3 call: the sequential call
\* raised, the concurrent one returned.
C3_Witness ==
  /\ Len(history) = 2
  /\ ~history[1].parallel
  /\ history[1].outcome.raised = "RuntimeError"
  /\ history[2].parallel
  /\ history[2].outcome.raised = "none"
  /\ callState[Stage3] = "raised"
  /\ callState[Stage2] = "returned"

\* C4: when the stage-1 call raises, analyze ends with that exception in
\* both modes, returns no result, and neither downstream call is started.
C4_Stage1Fatal ==
  callState[Stage1] = "raised" =>
    /\ pc = "raised"
    /\ ret.raised = "RuntimeError"
    /\ \A a \in Downstream :
         callState[a] = "idle" /\ callCount[a] = 0 /\ callInput[a] = Absent

\* The stage-1 call of a concurrent analyze raised.
C4_Witness == callState[Stage1] = "raised" /\ parallel /\ pc = "raised"

\* C5: a downstream call is started only after the stage-1 call returned,
\* and its argument is the raw value the stage-1 call returned, never the
\* record parsed from it.
C5_RawStage1Forwarded ==
  \A a \in Downstream :
    callState[a] # "idle" =>
      /\ callState[Stage1] = "returned"
      /\ callInput[a] = env[Stage1]
      /\ callInput[a] # research_structure

\* Stage 1 answered with prose that is no JSON, and both downstream calls
\* of a sequential analyze were started with it.
C5_Witness ==
  /\ ~parallel
  /\ env[Stage1] = Text(TxtProse)
  /\ callState[Stage2] = "returned"
  /\ callState[Stage3] = "running"
  /\ callInput[Stage3] = Text(TxtProse)

\* C6: two finished analyze calls on the same text and the same three
\* responses, one concurrent and one sequential, in which both downstream
\* calls returned without raising, yielded results with the same field
\* values in all three records.
C6_ModeEquivalenceOnSuccess ==
  \A i \in DOMAIN history, j \in DOMAIN history :
    (/\ history[i].parallel
     /\ ~history[j].parallel
     /\ history[i].text = history[j].text
     /\ ~IsRaise(env[Stage2])
     /\ ~IsRaise(env[Stage3]))
    => history[i].outcome = history[j].outcome

\* The parsers applied to the value a stage's call returned.
ParsersOn(v) ==
  {ParseResearchStructure(v), ParseValidityThreats(v), ParseLiteratureScout(v)}

\* C7: each of the three parse operations returns a record, without
\* raising, for every value a call returned; and analyze raises only when
\* one of its external calls raised, never because of a malformed response.
C7_MalformedNeverAborts ==
  /\ \A s \in Stages :
       callState[s] = "returned" =>
         \A r \in ParsersOn(env[s]) : r.raised = "none" /\ IsInstanceDict(r.value)
  /\ pc = "raised" => \E s \in Stages : callState[s] = "raised"
  /\ (pc \in {"seq_call2", "seq_call3", "par_wait"}) => research_structure # Absent

\* A sequential analyze returned although stage 1 answered with prose,
\* stage 2 with no text at all and stage 3 with a JSON array.
C7_Witness ==
  /\ pc = "returned"
  /\ ~parallel
  /\ env[Stage1] = Text(TxtProse)
  /\ env[Stage2] = NoneVal
  /\ env[Stage3] = Text(TxtArray)

\* The value is text that json.loads turns into an object.
IsJsonObject(v) ==
  v[1] = "text" /\ JsonLoads(v).exc = "none" /\ IsInstanceDict(JsonLoads(v).val)

\* The value is text that is no JSON, or JSON that is no object.
IsMalformedText(v) == v[1] = "text" /\ ~IsJsonObject(v)

\* rec is the all-defaults record def but for exactly one note, a str, in
\* its field f.
NotedDefault(rec, def, f) ==
  /\ IsInstanceDict(rec)
  /\ DOMAIN rec[2] = DOMAIN def[2]
  /\ \A k \in DOMAIN def[2] \ {f} : rec[2][k] = def[2][k]
  /\ rec[2][f][1] = "list"
  /\ Len(rec[2][f][2]) = Len(def[2][f][2]) + 1
  /\ rec[2][f][2][1][1] = "str"

\* What C8 asks of rec, the record parsed from the response v.
TotalDefaults(v, rec, def, f) ==
  /\ IsMalformedText(v) => NotedDefault(rec, def, f)
  /\ v = Text(TxtEmptyObject) => rec = def

\* C8: the record parsed from text that is no JSON (the empty text too) or
\* JSON that is no object is the all-defaults record of its kind with exactly
\* one note in the kind's notes field and every other field at its default;
\* the record parsed from "{}" is the all-defaults record without a note.
C8_TotalDefaults ==
  /\ research_structure # Absent =>
       TotalDefaults(research_json, research_structure,
                     DefaultResearchStructure(NoneVal), "missing_elements")
  /\ pc = "returned" =>
       /\ TotalDefaults(env[Stage2], ret.value[2].validity_threats,
                        DefaultValidityThreats(NoneVal), "mitigation_suggestions")
       /\ TotalDefaults(env[Stage3], ret.value[2].literature_scout,
                        DefaultLiteratureScout(NoneVal), "inferred_topics")

\* A concurrent analyze returned on an empty stage-1 text, a JSON scalar
\* from stage 2 and "{}" from stage 3.
C8_Witness ==
  /\ pc = "returned"
  /\ parallel
  /\ env[Stage1] = Text(TxtEmpty)
  /\ env[Stage2] = Text(TxtScalar)
  /\ env[Stage3] = Text(TxtEmptyObject)

\* rec has exactly the fields of def; each holds the value the JSON object
\* of v gives it, or its default when the object does not name it.
KnownKeyMerge(v, rec, def) ==
  IsJsonObject(v) =>
    LET obj == JsonLoads(v).val[2] IN
    /\ IsInstanceDict(rec)
    /\ DOMAIN rec[2] = DOMAIN def[2]
    /\ \A k \in DOMAIN def[2] :
         rec[2][k] = IF k \in DOMAIN obj THEN obj[k] ELSE def[2][k]

\* C9: the record parsed from a JSON object has exactly the field names of
\* its kind; a known field the object names carries the object's value, one
\* it does not name keeps its default, and no other key of the object
\* appears in the record.
C9_KnownKeyMerge ==
  /\ research_structure # Absent =>
       /\ KnownKeyMerge(research_json, research_structure,
                        DefaultResearchStructure(NoneVal))
       /\ IsJsonObject(research_json) =>
            DOMAIN research_structure[2] = StructureFields
  /\ pc = "returned" =>
       /\ KnownKeyMerge(env[Stage2], ret.value[2].validity_threats,
                        DefaultValidityThreats(NoneVal))
       /\ KnownKeyMerge(env[Stage3], ret.value[2].literature_scout,
                        DefaultLiteratureScout(NoneVal))
       /\ IsJsonObject(env[Stage2]) =>
            DOMAIN ret.value[2].validity_threats[2] = ValidityFields
       /\ IsJsonObject(env[Stage3]) =>
            DOMAIN ret.value[2].literature_scout[2] = LiteratureFields

\* An analyze returned on the stage-1 object with research_question,
\* variables and the unknown key "bogus".
C9_Witness ==
  /\ pc = "returned"
  /\ env[Stage1] = Text(TxtStructure)
  /\ env[Stage2] = Text(TxtValidity)
  /\ env[Stage3] = Text(TxtLiterature)
  /\ "bogus" \in DOMAIN JsonLoads(research_json).val[2]

\* The fields of a structure record that hold a string.
StructureStringFields ==
  {"research_question", "hypothesis", "method", "dataset", "evaluation"}

\* C10: in the all-defaults structure record every string field is the
\* empty string and every sequence field the empty sequence; a structure
\* record parsed from an object that omits research_question, hypothesis,
\* method, dataset or evaluation has the empty string in each omitted field.
C10_EmptyDefaults ==
  (research_structure # Absent /\ IsJsonObject(research_json)) =>
    \A k \in StructureFields \ DOMAIN JsonLoads(research_json).val[2] :
      research_structure[2][k] =
        IF k \in StructureStringFields THEN Str("") ELSE List(<<>>)

\* The /analyze handler has entered analyze for the request it serves.
Served == request # Absent /\ pc # "idle"

\* The value of the request's "parallel" field, true when it is absent.
RequestedParallel == DictGetDefault(request, "parallel", Bool(TRUE))[2]

\* C11: the analyze call the /analyze endpoint makes runs stages 2 and 3 in
\* the mode of the request's "parallel" field: concurrently when the field
\* is true or absent, sequentially when it is false.
C11_EndpointModeFromRequest ==
  Served =>
    /\ parallel = RequestedParallel
    /\ (pc = "par_wait" => RequestedParallel)
    /\ (pc \in {"seq_call2", "seq_call3"} => ~RequestedParallel)

\* C13: with no api_key argument and no key in the environment the
\* constructor raises a value error before it creates an agent; no analyze
\* step runs on such an orchestrator and no external call is made, and the
\* /analyze endpoint answers with status 400.
C13_MissingKeyFatal ==
  /\ \A e \in EnvKeys :
       ~Truthy(e) => OrchestratorInit(NoneVal, e) = [raised |-> "ValueError", agents |-> {}]
  /\ constructed = "ready" => agents # {} /\ \A a \in agents : Truthy(a[2])
  /\ constructed = "failed" =>
       /\ agents = {}
       /\ pc = "idle"
       /\ \A s \in Stages : callState[s] = "idle" /\ callCount[s] = 0
       /\ request # Absent => response.status = 400
  /\ pc # "idle" => constructed = "ready"

\* The endpoint got a well-formed request while no key was configured and
\* answered 400.
C13_Witness ==
  /\ constructed = "failed"
  /\ request = Payload(Str("proposal A"), Bool(TRUE))
  /\ response.status = 400
  /\ Len(history) = 1

\* A list of strings.
IsStrList(v) == v[1] = "list" /\ \A i \in 1..Len(v[2]) : IsInstanceStr(v[2][i])

\* A record of its kind with every field present and of the declared type:
\* the five string fields of a structure record hold strings, every other
\* field of the three kinds holds a list of strings.
WellTyped(fields, rec) ==
  /\ IsInstanceDict(rec)
  /\ DOMAIN rec[2] = fields
  /\ \A f \in fields :
       IF f \in StructureStringFields THEN IsInstanceStr(rec[2][f]) ELSE IsStrList(rec[2][f])

\* The records of each kind the program holds: the parsed stage-1 record,
\* and the three records of a returned result.
StructureRecords ==
  (IF research_structure # Absent THEN {research_structure} ELSE {})
    \cup (IF pc = "returned" THEN {ret.value[2].research_structure} ELSE {})
ValidityRecords == IF pc = "returned" THEN {ret.value[2].validity_threats} ELSE {}
LiteratureRecords == IF pc = "returned" THEN {ret.value[2].literature_scout} ELSE {}

\* C12: parsing the JSON serialization of a record whose fields are all
\* present and correctly typed returns an equal record, for each of the
\* three kinds; so parsing the serialization of a parser's own well-typed
\* output returns that output again.
C12_RoundTrip ==
  /\ \A rec \in StructureRecords :
       WellTyped(StructureFields, rec) =>
         ParseResearchStructure(Text(Dumps(rec))) = Returns(rec)
  /\ \A rec \in ValidityRecords :
       WellTyped(ValidityFields, rec) =>
         ParseValidityThreats(Text(Dumps(rec))) = Returns(rec)
  /\ \A rec \in LiteratureRecords :
       WellTyped(LiteratureFields, rec) =>
         ParseLiteratureScout(Text(Dumps(rec))) = Returns(rec)
  /\ research_structure # Absent /\ WellTyped(StructureFields, research_structure) =>
       ParseResearchStructure(Text(Dumps(ParseResearchStructure(research_json).value)))
         = ParseResearchStructure(research_json)

\* A returned result whose three records are well typed, the structure
\* record with parsed content (a question and a two-element list) and the
\* literature record with a note.
C12_Witness ==
  /\ pc = "returned"
  /\ WellTyped(StructureFields, ret.value[2].research_structure)
  /\ ret.value[2].research_structure[2].research_question = Str("Q")
  /\ ret.value[2].research_structure[2].variables = List(<<Str("X"), Str("Y")>>)
  /\ WellTyped(ValidityFields, ret.value[2].validity_threats)
  /\ WellTyped(LiteratureFields, ret.value[2].literature_scout)
  /\ ret.value[2].literature_scout[2].inferred_topics # List(<<>>)

\* C14: in sequential mode the stage-3 call starts only after the stage-2
\* call has returned, and it is never started when the stage-2 call raises.
C14_SequentialOrder ==
  ~parallel =>
    /\ callState[Stage3] # "idle" =>
         callState[Stage2] = "returned" /\ validity_response # Absent
    /\ callState[Stage2] = "running" =>
         callState[Stage3] = "idle" /\ callCount[Stage3] = 0
    /\ callState[Stage2] = "raised" =>
         callState[Stage3] = "idle" /\ callCount[Stage3] = 0 /\ pc = "raised"
    /\ \A i \in 1..Len(history) :
         ~history[i].parallel /\ Stage3 \in history[i].started =>
           Stage2 \in history[i].started

\* A sequential call ended by the exception of its stage-2 call, which
\* was made after the stage-1 call had returned; stage 3 was not started.
C14_Witness ==
  /\ ~parallel
  /\ pc = "raised"
  /\ callState[Stage2] = "raised"
  /\ callState[Stage3] = "idle"
  /\ callState[Stage1] = "returned"

\* What the as_completed loop stores for a downstream call, given only the
\* call's own outcome.
StoredFor(a) == IF IsRaise(env[a]) THEN ErrorRecord(a, env[a]) ELSE env[a]
StoredResults == [a \in Downstream |-> StoredFor(a)]

\* C15: in concurrent mode the result is the same for either completion
\* order of the two downstream calls: the validity_threats record is made
\* of the stage-2 outcome, the literature_scout record of the stage-3
\* outcome, and two concurrent calls with the same outcomes return equal
\* results.
C15_CompletionOrderIndependent ==
  /\ parallel /\ pc = "returned" =>
       /\ ret.value[2].validity_threats = ValidityOutput(StoredResults).value
       /\ ret.value[2].literature_scout = LiteratureOutput(StoredResults).value
  /\ parallel /\ pc = "par_wait" =>
       \A a \in Downstream : results[a] \in {Absent, StoredFor(a)}
  /\ \A i, j \in 1..Len(history) :
       /\ history[i].parallel /\ history[j].parallel
       /\ history[i].outcome.raised = "none" /\ history[j].outcome.raised = "none"
       => /\ history[i].outcome.value[2].validity_threats
               = history[j].outcome.value[2].validity_threats
          /\ history[i].outcome.value[2].literature_scout
               = history[j].outcome.value[2].literature_scout

\* A concurrent call that returned after the stage-3 call finished first,
\* the two calls having different outcomes, following a concurrent call
\* that had returned too.
C15_Witness ==
  /\ parallel
  /\ pc = "returned"
  /\ completed = <<Stage3, Stage2>>
  /\ env[Stage2] = Text(TxtValidity)
  /\ IsRaise(env[Stage3])
  /\ Len(history) = 2
  /\ history[1].parallel

\* C16: in concurrent mode analyze yields nothing while a downstream call
\* is outstanding, and it has finished only when both downstream calls
\* have returned or raised; a call that raised leaves the other one
\* started and waited for.
C16_WaitsForBoth ==
  parallel =>
    /\ (\E a \in Downstream : callState[a] = "running") =>
         pc = "par_wait" /\ ret = NoCall
    /\ pc \in {"returned", "raised"} /\ callState[Stage1] = "returned" =>
         \A a \in Downstream :
           callState[a] \in {"returned", "raised"} /\ callCount[a] = 1
    /\ (\E a \in Downstream : callState[a] = "raised") =>
         \A b \in Downstream : callState[b] # "idle" /\ callCount[b] = 1
    /\ pc = "returned" => Len(completed) = 2

\* The stage-2 call raised and was handled while the stage-3 call is still
\* outstanding: analyze is waiting.
C16_Witness ==
  /\ parallel
  /\ pc = "par_wait"
  /\ callState[Stage2] = "raised"
  /\ results[Stage2] # Absent
  /\ callState[Stage3] = "running"

\* The calls in flight.
InFlight == {s \in Stages : callState[s] = "running"}

\* C17: at most two calls are in flight, and two only as the stage-2 and
\* stage-3 calls of concurrent mode; nothing is in flight together with
\* the stage-1 call, and sequential mode has at most one call in flight.
C17_InFlightBound ==
  /\ Cardinality(InFlight) <= 2
  /\ Cardinality(InFlight) = 2 => parallel /\ InFlight = Downstream
  /\ Stage1 \in InFlight => InFlight = {Stage1}
  /\ ~parallel => Cardinality(InFlight) <= 1

\* Both downstream calls of a concurrent analyze are in flight.
C17_Witness ==
  /\ parallel
  /\ InFlight = Downstream
  /\ pc = "par_wait"

\* C18: one analyze call invokes each of the three extraction calls at
\* most once, also after a failure or a malformed response, and exactly
\* once each when it returns a result.
C18_SingleAttempt ==
  /\ \A s \in Stages : callCount[s] <= 1
  /\ pc = "returned" => \A s \in Stages : callCount[s] = 1
  /\ \A i \in 1..Len(history) :
       history[i].outcome.raised = "none" => history[i].started = Stages

\* A concurrent call returned a result although its stage-2 response was
\* malformed and its stage-3 call raised; each call was made once.
C18_Witness ==
  /\ pc = "returned"
  /\ env[Stage2] = Text(TxtProse)
  /\ IsRaise(env[Stage3])
  /\ \A s \in Stages : callCount[s] = 1

\* The phase of the analyze call at position p.
Phase(p) ==
  CASE p = "idle"        -> "START"
    [] p = "stage1_call" -> "STAGE1_PENDING"
    [] p = "stage1_done" -> "STAGE1_DONE"
    [] p = "par_wait"    -> "STAGE23_CONCURRENT"
    [] p \in {"seq_call2", "seq_call3"} -> "STAGE23_SEQUENTIAL"
    [] p = "returned"    -> "ASSEMBLED"
    [] p = "raised"      -> "RAISED"

\* The phase changes of one analyze call.
PhaseOrder ==
  {<<"START", "STAGE1_PENDING">>, <<"STAGE1_PENDING", "STAGE1_DONE">>,
   <<"STAGE1_DONE", "STAGE23_SEQUENTIAL">>, <<"STAGE1_DONE", "STAGE23_CONCURRENT">>,
   <<"STAGE23_SEQUENTIAL", "ASSEMBLED">>, <<"STAGE23_CONCURRENT", "ASSEMBLED">>}

\* A step that begins another call: analyze is entered anew, or a new
\* orchestrator is constructed, once the call before has ended.
NewCall ==
  /\ pc \in {"idle", "returned", "raised"}
  /\ pc' \in {"idle", "stage1_call"}
  /\ ret' = NoCall
  /\ callState'[Stage1] = IF pc' = "idle" THEN "idle" ELSE "running"
  /\ \A a \in Downstream : callState'[a] = "idle"

\* A step of a call that is under way: it stays in its phase, moves on to
\* the next one (the downstream phase being the one the flag selects), or
\* is ended by an exception.
CallStep ==
  \/ Phase(pc') = Phase(pc)
  \/ /\ <<Phase(pc), Phase(pc')>> \in PhaseOrder
     /\ Phase(pc') = "STAGE23_CONCURRENT" => parallel
     /\ Phase(pc') = "STAGE23_SEQUENTIAL" => ~parallel
     /\ Phase(pc') = "ASSEMBLED" => callState[Stage1] = "returned"
  \/ /\ Phase(pc) \in {"STAGE1_PENDING", "STAGE23_SEQUENTIAL", "STAGE23_CONCURRENT"}
     /\ Phase(pc') = "RAISED"

\* C19: an analyze call passes through its phases only in the order START,
\* STAGE1_PENDING, STAGE1_DONE, then STAGE23_CONCURRENT when the flag is
\* set and STAGE23_SEQUENTIAL when it is not, then ASSEMBLED; no phase is
\* entered again, ASSEMBLED is left only by the start of another call and
\* is reached only with stage 1 done.
C19_PhaseOrder == [][NewCall \/ CallStep]_vars

\* A concurrent call reached ASSEMBLED after a sequential call had.
C19_Witness ==
  /\ pc = "returned"
  /\ parallel
  /\ callState[Stage1] = "returned"
  /\ Len(history) = 2
  /\ ~history[1].parallel
  /\ history[1].outcome.raised = "none"

\* An analyze call is under way.
InProgress == pc \notin {"idle", "returned", "raised"}

\* C20: when every started external call returns or raises, an analyze
\* call that is under way eventually finishes, with a result or with an
\* exception, in either mode and for each completion order.
C20_Termination == InProgress ~> (pc \in {"returned", "raised"} /\ ret # NoCall)

\* A concurrent call finished whose stage-3 call had raised before its
\* stage-2 call returned, after a sequential call had finished.
C20_Witness ==
  /\ pc = "returned"
  /\ parallel
  /\ completed = <<Stage3, Stage2>>
  /\ callState[Stage3] = "raised"
  /\ Len(history) = 2
  /\ ~history[1].parallel
  /\ history[1].outcome.raised # "none"

\* A step in which a downstream call finishes in its worker.
WorkerStep == \E a \in Downstream : callState[a] = "running" /\ callState'[a] # "running"

\* A step of the concurrent phase: a worker that finishes writes nothing
\* but its own outcome; the stage-1 raw text and the arguments of the two
\* calls stay as they are; the results map changes only in a step of the
\* orchestrating thread, by one entry, which was unset and gets the outcome
\* of its own stage.
ConcurrentStep ==
  /\ research_json' = research_json
  /\ callInput' = callInput
  /\ \A a \in Downstream : callInput[a] = research_json
  /\ WorkerStep =>
       /\ results' = results
       /\ research_structure' = research_structure
       /\ validity_response' = validity_response
       /\ ret' = ret
       /\ pc' = pc
       /\ \E a \in Downstream :
            \A b \in Stages \ {a} : callState'[b] = callState[b]
  /\ \A a \in Downstream :
       /\ results[a] # Absent => results'[a] = results[a]
       /\ results'[a] # results[a] =>
            /\ callState' = callState
            /\ callState[a] \in {"returned", "raised"}
            /\ results'[a] = StoredFor(a)
            /\ \A b \in Downstream \ {a} : results'[b] = results[b]
  /\ pc' = "returned" => \A a \in Downstream : results[a] = StoredFor(a)

\* C21: the two concurrent downstream calls write no shared state: each
\* reads the stage-1 raw text and hands back its own outcome, and only the
\* orchestrating thread writes the results map, one entry per stage, never
\* overwriting an entry, so no outcome is lost in any interleaving.
C21_NoSharedWrites == [][pc = "par_wait" => ConcurrentStep]_vars

\* Both outcomes are in the results map, each under its own stage, the
\* stage-3 call having finished first.
C21_Witness ==
  /\ pc = "par_wait"
  /\ completed = <<Stage3, Stage2>>
  /\ env[Stage2] # env[Stage3]
  /\ \A a \in Downstream : results[a] = StoredFor(a)

\* The validity-threat fields the record schema declares as sequences of
\* threats.
ThreatFields ==
  {"internal_validity", "external_validity", "construct_validity", "conclusion_validity"}

\* C22: in a parsed validity record the fields internal_validity,
\* external_validity, construct_validity and conclusion_validity are always
\* sequences; a bare string in the response is wrapped into a
\* single-element sequence by the parser.
C22_ThreatFieldsAreSequences ==
  /\ pc = "returned" =>
       \A f \in ThreatFields : ret.value[2].validity_threats[2][f][1] = "list"
  /\ pc = "returned" /\ env[Stage2] = Text(TxtValidity) =>
       ret.value[2].validity_threats[2].internal_validity = List(<<Str("T")>>)

\* The field of each record kind that takes the notes.
NotesOf(kind) ==
  IF kind = Stage1 THEN "missing_elements" ELSE NotesField(kind)

\* C23: nothing persists across analyze calls on one orchestrator: calls
\* with the same flag and the same outcomes of their external calls yield
\* the same result whatever their position among the calls made, and no
\* record of a call holds a note of an earlier call (with the responses of
\* the model a notes field holds one entry at most).
C23_NothingPersists ==
  /\ \A i, j \in 1..Len(history) :
       history[i].parallel = history[j].parallel =>
         /\ history[i].outcome = history[j].outcome
         /\ history[i].started = history[j].started
  /\ \A i \in 1..Len(history) :
       history[i].outcome.raised = "none" =>
         \A kind \in Stages :
           LET notes == history[i].outcome.value[2][kind][2][NotesOf(kind)] IN
           notes[1] = "list" /\ Len(notes[2]) <= 1

\* A second call with another text returned after a first call with the
\* same flag; each stage left a note in its record.
C23_Witness ==
  /\ Len(history) = 2
  /\ pc = "returned"
  /\ history[1].text # history[2].text
  /\ history[1].parallel = history[2].parallel
  /\ history[1].outcome.raised = "none"
  /\ \A kind \in Stages :
       Len(ret.value[2][kind][2][NotesOf(kind)][2]) = 1

InvalidText(payload) ==
  \/ "text" \notin DOMAIN payload[2]
  \/ payload[2].text[1] # "str"
  \/ payload[2].text[2] \in WhitespaceOnly

\* The request's "parallel" is present and not a boolean.
InvalidParallel(payload) ==
  "parallel" \in DOMAIN payload[2] /\ payload[2].parallel[1] # "bool"

\* No orchestrator was constructed, no analyze step ran and no external
\* call was made.
NothingStarted ==
  /\ constructed = "none"
  /\ agents = {}
  /\ pc = "idle"
  /\ \A s \in Stages : callState[s] = "idle" /\ callCount[s] = 0

\* C25: the /analyze endpoint answers a request whose "text" is missing,
\* not a string or blank, or whose "parallel" is present and not a boolean,
\* with status 400 and a message naming the field, before it constructs
\* the orchestrator and before any external call.
C25_InvalidInputRejected ==
  request # Absent =>
    /\ InvalidText(request) =>
         /\ response = HttpResponse(400, Str("Field 'text' must be a non-empty string"))
         /\ NothingStarted
    /\ ~InvalidText(request) /\ InvalidParallel(request) =>
         /\ response = HttpResponse(400, Str("Field 'parallel' must be a boolean"))
         /\ NothingStarted

\* A request with a blank text was rejected after an earlier request had
\* been served to its end.
C25_Witness ==
  /\ request = Payload(Str("   "), Bool(FALSE))
  /\ response.status = 400
  /\ Len(history) = 1

\* The endpoint has answered the request it was serving.
Answered == request # Absent /\ response # NoResponse

\* C26: at the /analyze endpoint an exception of the value-error class that
\* escapes the construction of the orchestrator or analyze becomes a
\* response with status 400; an exception of another class is not
\* converted and gives the generic server error.
C26_ValueErrorToClientError ==
  /\ Answered /\ constructed = "failed" => response.status = 400
  /\ Answered /\ pc = "raised" =>
       /\ \E s \in Stages : callState[s] = "raised" /\ ret.raised = ExceptionClass(env[s])
       /\ ret.raised \in {"ValueError", "JSONDecodeError"} => response.status = 400
       /\ ret.raised \notin {"ValueError", "JSONDecodeError"} =>
            response = HttpResponse(500, Str("Internal Server Error"))
  /\ Answered /\ pc = "returned" => response = HttpResponse(200, ret.value)

\* The stage-2 call of a served request raised a value error, which the
\* endpoint answered with status 400.
C26_Witness ==
  /\ Answered
  /\ pc = "raised"
  /\ callState[Stage2] = "raised"
  /\ ret.raised = "ValueError"
  /\ response.status = 400

\* C27: the research_structure record of a returned result is the parse
\* of the stage-1 raw output alone, the same for both values of the flag
\* and for every outcome of the stage-2 and stage-3 calls.
C27_StructureFromStage1Alone ==
  /\ pc = "returned" =>
       /\ ret.value[2].research_structure = ParseResearchStructure(env[Stage1]).value
       /\ ret.value[2].research_structure = research_structure
  /\ \A i \in 1..Len(history) :
       history[i].outcome.raised = "none" =>
         history[i].outcome.value[2].research_structure
           = ParseResearchStructure(env[Stage1]).value

\* A concurrent call returned the parsed structure record although its
\* stage-2 response was malformed and its stage-3 call failed.
C27_Witness ==
  /\ pc = "returned"
  /\ parallel
  /\ env[Stage1] = Text(TxtStructure)
  /\ env[Stage2] = Text(TxtTruncated)
  /\ IsRaise(env[Stage3])
  /\ ret.value[2].research_structure[2].research_question = Str("Q")

\* The note a parser leaves when it is given None.
NoneNote(a) ==
  Str((IF a = Stage2 THEN "Failed to parse validity threats: "
                     ELSE "Failed to parse literature scout: ")
      \o "the JSON object must be str, bytes or bytearray, not NoneType")

\* The all-defaults record of agent a's kind.
PlainDefault(a) ==
  IF a = Stage2 THEN DefaultValidityThreats(NoneVal) ELSE DefaultLiteratureScout(NoneVal)

\* C28: a downstream call that returns None without raising yields, in
\* concurrent mode, the all-defaults record of its kind with no note in any
\* field, and in sequential mode the all-defaults record with one
\* parse-failure note in its notes field.
C28_NoneByMode ==
  \A a \in Downstream :
    pc = "returned" /\ env[a] = NoneVal =>
      IF parallel
      THEN RecordOf(a) = PlainDefault(a)
      ELSE RecordOf(a) =
             Dict([PlainDefault(a)[2] EXCEPT ![NotesField(a)] = List(<<NoneNote(a)>>)])

\* The stage-3 call returned None in a sequential call and again in the
\* concurrent call after it; both calls returned a result.
C28_Witness ==
  /\ pc = "returned"
  /\ parallel
  /\ env[Stage3] = NoneVal
  /\ env[Stage2] = Text(TxtValidity)
  /\ Len(history) = 2
  /\ ~history[1].parallel
  /\ history[1].outcome.raised = "none"
  /\ history[1].outcome.value[2].literature_scout # RecordOf(Stage3)

====
